---- MODULE Spec2Model ----
(***************************************************************************)
(* scripts/validate_min_versions_in_sync.py: the minimum versions of the   *)
(* optional dependencies in pandas/compat/_optional.py, pyproject.toml and *)
(* the CI descriptor files of the root and of ci/deps agree.               *)
(*                                                                         *)
(* A Python str is a sequence of one-character strings, a dict a function  *)
(* whose domain is the set of its keys.                                    *)
(***************************************************************************)
EXTENDS Integers, Sequences, FiniteSets, TLC

VARIABLES
    pc,               \* the statement the process is at, or was at when it raised
    VERSIONS,         \* _optional.VERSIONS as read from pandas/compat/_optional.py
    INSTALL_MAPPING,  \* _optional.INSTALL_MAPPING
    opt_deps,         \* pyproject.toml: project.optional-dependencies (all, test)
    files_root,       \* paths the iterator files_root has still to yield
    files_ci_deps,    \* paths the iterator files_ci_deps has still to yield
    code_optional,    \* main's local: get_versions_from_code(), {} while unbound
    setup_optional,   \* main's local: get_versions_from_toml(), {} while unbound
    yml_file_path,    \* check_yml_files' local: the file of the last iteration
    ci,               \* frame of the last call of get_versions_from_ci
    diffs,            \* history: find_diff's local diff, one per call
    out,              \* what has been written to sys.stdout
    FLAG,             \* the module's global FLAG
    exit_status,      \* argument of sys.exit, None before
    exception,        \* the uncaught exception that ended the process, None if none
    runs              \* two runs side by side, each on one CI file (SpecPair)

vars == <<pc, VERSIONS, INSTALL_MAPPING, opt_deps, files_root, files_ci_deps,
          code_optional, setup_optional, yml_file_path, ci, diffs, out, FLAG,
          exit_status, exception, runs>>

None == "None"

(***************************************************************************)
(* Bounds of the model.                                                    *)
(***************************************************************************)
MaxLines == 3       \* lines of a CI file whose reading is followed line by line
MaxFiles == 2       \* yml files discovered in the root and in ci/deps together
MaxPairLines == 3   \* lines of the two CI files that are compared side by side

(***************************************************************************)
(* str                                                                     *)
(***************************************************************************)
Whitespace == {" ", "\t", "\n", "\r"}

UPPER == <<"A","B","C","D","E","F","G","H","I","J","K","L","M",
           "N","O","P","Q","R","S","T","U","V","W","X","Y","Z">>
LOWER == <<"a","b","c","d","e","f","g","h","i","j","k","l","m",
           "n","o","p","q","r","s","t","u","v","w","x","y","z">>

\* str.casefold on ASCII text
CasefoldChar(c) ==
    IF \E i \in 1..Len(UPPER) : UPPER[i] = c
    THEN LOWER[CHOOSE i \in 1..Len(UPPER) : UPPER[i] = c]
    ELSE c
Casefold(s) == [i \in 1..Len(s) |-> CasefoldChar(s[i])]

\* sub in s
StartsAt(s, sub, i) ==
    /\ i + Len(sub) - 1 <= Len(s)
    /\ \A j \in 1..Len(sub) : s[i + j - 1] = sub[j]
Contains(s, sub) == \E i \in 1..(Len(s) + 1) : StartsAt(s, sub, i)

\* s.strip()
Strip(s) ==
    LET keep == {i \in 1..Len(s) : s[i] \notin Whitespace}
    IN  IF keep = {} THEN <<>>
        ELSE LET lo == CHOOSE i \in keep : \A j \in keep : i <= j
                 hi == CHOOSE i \in keep : \A j \in keep : j <= i
             IN  SubSeq(s, lo, hi)

\* s.split(sep): cut at every occurrence of sep, left to right, not overlapping
RECURSIVE Split(_, _)
Split(s, sep) ==
    IF ~Contains(s, sep) THEN <<s>>
    ELSE LET i == CHOOSE k \in 1..Len(s) :
                      /\ StartsAt(s, sep, k)
                      /\ \A j \in 1..(k - 1) : ~StartsAt(s, sep, j)
         IN  <<SubSeq(s, 1, i - 1)>> \o Split(SubSeq(s, i + Len(sep), Len(s)), sep)

(***************************************************************************)
(* dict                                                                    *)
(***************************************************************************)
EmptyDict == [k \in {} |-> <<>>]
\* d[k] = v
Put(d, k, v) == [x \in (DOMAIN d) \cup {k} |-> IF x = k THEN v ELSE d[x]]
\* d.get(k, default)
Get(d, k, default) == IF k \in DOMAIN d THEN d[k] ELSE default
\* d.pop(k, None) for every k of ks
PopAll(d, ks) == [x \in (DOMAIN d) \ ks |-> d[x]]
\* d.items()
Items(d) == {<<k, d[k]>> : k \in DOMAIN d}

(***************************************************************************)
(* The module's constants and the literals of the code                     *)
(***************************************************************************)
tzdata == <<"t","z","d","a","t","a">>
blosc == <<"b","l","o","s","c">>
pytest == <<"p","y","t","e","s","t">>
EXCLUDE_DEPS == {tzdata, blosc}

REQUIRED_DEPENDENCIES ==   \* "# required dependencies"
    <<"#"," ","r","e","q","u","i","r","e","d"," ",
      "d","e","p","e","n","d","e","n","c","i","e","s">>
OPTIONAL_DEPENDENCIES ==   \* "# optional dependencies"
    <<"#"," ","o","p","t","i","o","n","a","l"," ",
      "d","e","p","e","n","d","e","n","c","i","e","s">>
PIP == <<"-"," ","p","i","p",":">>          \* "- pip:"
NotSpecified ==                              \* 'Not specified'
    <<"N","o","t"," ","s","p","e","c","i","f","i","e","d">>
HASH == <<"#">>
EQEQ == <<"=","=">>
GE == <<">","=">>
EQ == <<"=">>
LT == <<"<">>

(***************************************************************************)
(* get_versions_from_ci                                                    *)
(***************************************************************************)
\* lines 90-107: the (package, version) of a dependency line; unpacking a
\* split that has not exactly two parts raises ValueError
ParseCiLine(line0) ==
    LET line == Head(Split(line0, HASH))
        s == Strip(line)
        parts == IF Contains(line, EQEQ) THEN Split(s, EQEQ)
                 ELSE IF Contains(line, GE) THEN Split(s, GE)
                 ELSE IF Contains(line, EQ) THEN Split(s, EQ)
                 ELSE IF Contains(line, LT) THEN Split(s, LT)
                 ELSE <<s, <<>>>>
    IN  IF Len(parts) # 2
        THEN [error |-> "ValueError"]
        ELSE [error |-> None,
              package |-> SubSeq(parts[1], 3, Len(parts[1])),
              version |-> parts[2]]

\* AddRecord with the section test reading the wrong flag
AddRecordBySeenRequired(st, package, version) ==
    IF st.seen_required
    THEN [st EXCEPT !.required_deps = Put(@, Casefold(package), version)]
    ELSE [st EXCEPT !.optional_deps = Put(@, Casefold(package), version)]

\* lines 110-114
AddRecord(st, package, version) ==
    IF ~st.seen_optional
    THEN [st EXCEPT !.required_deps = Put(@, Casefold(package), version)]
    ELSE [st EXCEPT !.optional_deps = Put(@, Casefold(package), version)]

\* lines 83-115: the body of the loop, on the frame st and the next line
CiLine(st, line) ==
    IF Contains(line, REQUIRED_DEPENDENCIES) THEN [st EXCEPT !.seen_required = TRUE]
    ELSE IF Contains(line, OPTIONAL_DEPENDENCIES) THEN [st EXCEPT !.seen_optional = TRUE]
    ELSE IF Contains(line, PIP) THEN st
    ELSE IF st.seen_required /\ Strip(line) # <<>>
    THEN LET p == ParseCiLine(line)
         IN  IF p.error # None THEN [st EXCEPT !.status = p.error]
             ELSE IF p.package \in EXCLUDE_DEPS THEN st
             ELSE AddRecord(st, p.package, p.version)
    ELSE st

\* lines 78-81: the frame when the function is entered
CiEnter(content) ==
    [content |-> content, n |-> 0,
     seen_required |-> FALSE, seen_optional |-> FALSE,
     required_deps |-> EmptyDict, optional_deps |-> EmptyDict,
     status |-> "running"]

\* one iteration of `for line in content`
CiIterate(st) == [CiLine(st, st.content[st.n + 1]) EXCEPT !.n = st.n + 1]

\* lines 75-116: the frame when the function returns or raises
RECURSIVE CiRun(_)
CiRun(st) ==
    IF st.status # "running" THEN st
    ELSE IF st.n = Len(st.content) THEN [st EXCEPT !.status = "returned"]
    ELSE CiRun(CiIterate(st))
get_versions_from_ci(content) == CiRun(CiEnter(content))

CiIdle == CiEnter(<<>>)

(***************************************************************************)
(* get_versions_from_code and get_versions_from_toml                       *)
(***************************************************************************)
\* the dicts that inserting the (key, value) pairs in some order can build:
\* the last pair of a key wins, and the order (of a set, of the table) is
\* not fixed by the code
AnyOrder(pairs) ==
    LET keys == {p[1] : p \in pairs}
        values == {p[2] : p \in pairs}
    IN  {d \in [keys -> values] : \A k \in keys : <<k, d[k]>> \in pairs}

\* install_map.get(k, k).casefold(), lines 69 and 136
InstallName(k) == Casefold(Get(INSTALL_MAPPING, k, k))

\* lines 62-72: the dicts the function can return
get_versions_from_code ==
    LET versions == PopAll(VERSIONS, EXCLUDE_DEPS)
    IN  AnyOrder({<<InstallName(k), versions[k]>> : k \in (DOMAIN versions) \ {pytest}})

\* TomlSplit made lenient: a string that does not split in two is taken as
\* a package without a version
TomlSplitLenient(dependency) ==
    LET parts == Split(Strip(dependency), GE)
    IN  IF Len(parts) = 2 THEN parts ELSE <<parts[1], <<>>>>

\* line 135: dependency.strip().split(">=")
TomlSplit(dependency) == Split(Strip(dependency), GE)

\* lines 128-132
TomlDependencies == opt_deps.all \ opt_deps.test

\* line 135: the unpacking into (package, version) raises ValueError
TomlRaises == \E dependency \in TomlDependencies : Len(TomlSplit(dependency)) # 2

\* lines 134-141: the dicts the function can return when nothing is raised
get_versions_from_toml ==
    LET pairs == {<<InstallName(TomlSplit(dependency)[1]), TomlSplit(dependency)[2]>> :
                    dependency \in TomlDependencies}
    IN  {PopAll(d, EXCLUDE_DEPS) : d \in AnyOrder(pairs)}

(***************************************************************************)
(* find_diff                                                               *)
(***************************************************************************)
\* Diff without the common pairs taken out
DiffUnion(ci_optional, code, setup) ==
    Items(ci_optional) \cup Items(code) \cup Items(setup)

\* lines 151-153
Diff(ci_optional, code, setup) ==
    (Items(ci_optional) \cup Items(code) \cup Items(setup))
        \ (Items(ci_optional) \cap Items(code) \cap Items(setup))

\* line 156
Packages(diff) == {pair[1] : pair \in diff}

\* lines 158-162
Header(path) == [kind |-> "header", yml_file_path |-> path]

\* Block with '' as the default: a package that a source lacks is shown as ''
BlockEmptyDefault(package, ci_optional, code, setup, path) ==
    [kind |-> "block", yml_file_path |-> path, package |-> package,
     ci |-> Get(ci_optional, package, <<>>),
     code |-> Get(code, package, <<>>),
     setup |-> Get(setup, package, <<>>)]

\* lines 165-170
Block(package, ci_optional, code, setup, path) ==
    [kind |-> "block", yml_file_path |-> path, package |-> package,
     ci |-> Get(ci_optional, package, NotSpecified),
     code |-> Get(code, package, NotSpecified),
     setup |-> Get(setup, package, NotSpecified)]

\* the orders in which `for package in packages` can visit a set
Orders(S) == {o \in [1..Cardinality(S) -> S] : \A x \in S : \E i \in DOMAIN o : o[i] = x}

\* lines 155-170: what the call can write to sys.stdout
Reports(ci_optional, code, setup, path) ==
    LET diff == Diff(ci_optional, code, setup)
    IN  IF diff = {} THEN {<<>>}
        ELSE {<<Header(path)>> \o [i \in DOMAIN o |-> Block(o[i], ci_optional, code, setup, path)] :
                o \in Orders(Packages(diff))}

\* FlagAfter with the flag following the last comparison only
FlagOfLast(flag, diff) == IF diff # {} THEN 1 ELSE 0

\* lines 155, 171-172
FlagAfter(flag, diff) == IF diff # {} THEN 1 ELSE flag

(***************************************************************************)
(* What the run finds on disk                                              *)
(***************************************************************************)
V1 == <<"1">>
V2 == <<"2">>
V7 == <<"7">>
PkgA == <<"a">>
PkgX == <<"x">>
UpperA == <<"A">>
UpperTzdata == <<"T","z","d","a","t","a">>
EmptyStr == <<>>

\* lines of CI files
LineRequired == <<"#"," ","r","e","q","u","i","r","e","d"," ","d","e","p","e","n","d","e","n","c","i","e","s">>
LineOptional == <<" "," ","#"," ","o","p","t","i","o","n","a","l"," ","d","e","p","e","n","d","e","n","c","i","e","s">>
LinePip == <<" "," ","-"," ","p","i","p",":">>                      \* "  - pip:"
LineBlank == <<" "," ">>                                            \* "  "
LineA1 == <<" "," ","-"," ","a","=","1">>                           \* "  - a=1"
LineAGe1 == <<"-"," ","a",">","=","1">>                             \* "- a>=1"
LineUpperA2 == <<"-"," ","A","=","=","2">>                          \* "- A==2"
LineBuild == <<"-"," ","a","=","1","=","2">>                        \* "- a=1=2"
LineRange == <<"-"," ","a",">","=","1",",","<","2">>                \* "- a>=1,<2"
LineTzdata == <<"-"," ","t","z","d","a","t","a","=","1">>           \* "- tzdata=1"
LineUpperTzdata == <<"-"," ","T","z","d","a","t","a","=","1">>      \* "- Tzdata=1"
LineComment == <<"#"," ","c">>                                      \* "# c"
LineB == <<"-"," ","b">>                                            \* "- b"
LineALt2 == <<"-"," ","a","<","2">>                                 \* "- a<2"
LineTrailing == <<"-"," ","a","=","1"," ","#"," ","c">>             \* "- a=1 # c"

LinePool ==
    {LineRequired, LineOptional, LinePip, LineBlank, LineA1, LineAGe1, LineUpperA2,
     LineBuild, LineRange, LineTzdata, LineUpperTzdata, LineComment, LineB, LineALt2,
     LineTrailing}

\* the files of at most n lines of the pool
Contents(pool, n) == UNION {[1..k -> pool] : k \in 0..n}

\* whole CI files, as the driver reads them
YmlAgree == <<LineRequired, LineB, LineOptional, LineA1>>
YmlOther == <<LineRequired, LineOptional, LineUpperA2>>
YmlMissing == <<LineRequired, LineA1, LineOptional>>
YmlUpperTzdata == <<LineRequired, LineOptional, LineAGe1, LineUpperTzdata>>
YmlComment == <<LineRequired, LineOptional, LineA1, LineComment>>
YmlBuild == <<LineRequired, LineOptional, LineBuild>>
YmlFilePool == {YmlAgree, YmlOther, YmlMissing, YmlUpperTzdata, YmlComment, YmlBuild}

\* dependency strings of pyproject.toml
DepA1 == <<"a",">","=","1">>                                \* "a>=1"
DepPytest == <<"p","y","t","e","s","t",">","=","7">>        \* "pytest>=7"
DepAEq == <<"a","=","=","1">>                               \* "a==1"
DepTzdata == <<"t","z","d","a","t","a",">","=","1">>        \* "tzdata>=1"
DepX1 == <<"x",">","=","1">>                                \* "x>=1"
DepRange == <<"a",">","=","1",",","<","2">>                 \* "a>=1,<2"
DepBare == <<"a">>                                          \* "a"
DepUpperA2 == <<" ","A",">","=","2">>                       \* " A>=2"

OptDepsPool ==
    {[all |-> {DepA1, DepPytest}, test |-> {DepPytest}],
     [all |-> {DepX1, DepTzdata}, test |-> {}],
     [all |-> {DepUpperA2}, test |-> {}],
     [all |-> {DepRange}, test |-> {}],
     [all |-> {DepAEq, DepPytest}, test |-> {DepPytest}],
     [all |-> {DepA1, DepBare}, test |-> {}]}

\* pandas/compat/_optional.py
VersionsPool ==
    {(PkgA :> V1) @@ (pytest :> V7),
     (PkgX :> V1) @@ (tzdata :> V1),
     (PkgA :> V1) @@ (UpperTzdata :> V2)}
InstallPool == {PkgX :> UpperA}

\* the directories
RootNames == {"environment.yml", "codecov.yml"}
CiDepsNames == {"actions-38-minimum_versions.yaml", "actions-310.yaml"}
\* the names that match actions-*-minimum_versions.yaml, line 30
MinimumVersionsNames == {"actions-38-minimum_versions.yaml"}

\* the orders in which a glob can yield at most n of the names
Discovered(dir, names, n) ==
    {[i \in DOMAIN o |-> [dir |-> dir, name |-> o[i]]] :
        o \in {q \in UNION {[1..k -> names] : k \in 0..n} :
                 \A i, j \in DOMAIN q : i # j => q[i] # q[j]}}

(***************************************************************************)
(* The run: import of the module, then main                                *)
(***************************************************************************)
NoRuns == [r \in {} |-> None]
NoPath == [dir |-> None, name |-> None]
\* no exception has ended the process
Running == exception = None
\* main's locals are bound once the call that sets them has returned
CodeBound == pc \notin {"import", "get_versions_from_code"}
SetupBound == CodeBound /\ pc # "get_versions_from_toml"

Init ==
    /\ pc = "import"
    /\ VERSIONS \in VersionsPool
    /\ INSTALL_MAPPING \in InstallPool
    /\ opt_deps \in OptDepsPool
    /\ files_root \in Discovered("", RootNames, MaxFiles)
    /\ files_ci_deps \in Discovered("ci/deps", CiDepsNames, MaxFiles)
    /\ Len(files_root) + Len(files_ci_deps) <= MaxFiles
    /\ code_optional = EmptyDict
    /\ setup_optional = EmptyDict
    /\ yml_file_path = NoPath
    /\ ci = CiIdle
    /\ diffs = <<>>
    /\ out = <<>>
    /\ FLAG = 0
    /\ exit_status = None
    /\ exception = None
    /\ runs = NoRuns

disk == <<VERSIONS, INSTALL_MAPPING, opt_deps>>

\* line 29: next() of the glob of the minimum-versions file
HasMinimumVersionsFile ==
    \E i \in DOMAIN files_ci_deps : files_ci_deps[i].name \in MinimumVersionsNames

\* lines 17-46
Import ==
    /\ Running
    /\ pc = "import"
    /\ HasMinimumVersionsFile
    /\ pc' = "get_versions_from_code"
    /\ UNCHANGED <<disk, files_root, files_ci_deps, code_optional, setup_optional,
                   yml_file_path, ci, diffs, out, FLAG, exit_status, exception, runs>>

\* lines 29-31: next() on an empty glob
ImportRaises ==
    /\ Running
    /\ pc = "import"
    /\ ~HasMinimumVersionsFile
    /\ exception' = "StopIteration"
    /\ UNCHANGED <<pc, disk, files_root, files_ci_deps, code_optional, setup_optional,
                   yml_file_path, ci, diffs, out, FLAG, exit_status, runs>>

\* line 176
GetVersionsFromCode ==
    /\ Running
    /\ pc = "get_versions_from_code"
    /\ code_optional' \in get_versions_from_code
    /\ pc' = "get_versions_from_toml"
    /\ UNCHANGED <<disk, files_root, files_ci_deps, setup_optional,
                   yml_file_path, ci, diffs, out, FLAG, exit_status, exception, runs>>

\* line 177
GetVersionsFromToml ==
    /\ Running
    /\ pc = "get_versions_from_toml"
    /\ ~TomlRaises
    /\ setup_optional' \in get_versions_from_toml
    /\ pc' = "check_root"
    /\ UNCHANGED <<disk, files_root, files_ci_deps, code_optional,
                   yml_file_path, ci, diffs, out, FLAG, exit_status, exception, runs>>

\* line 177, the ValueError of line 135 reaches the top
GetVersionsFromTomlRaises ==
    /\ Running
    /\ pc = "get_versions_from_toml"
    /\ TomlRaises
    /\ exception' = "ValueError"
    /\ UNCHANGED <<pc, disk, files_root, files_ci_deps, code_optional, setup_optional,
                   yml_file_path, ci, diffs, out, FLAG, exit_status, runs>>

\* the iterator that the call of check_yml_files at pc reads
Checking == pc \in {"check_root", "check_ci_deps"}
Iterator == IF pc = "check_root" THEN files_root ELSE files_ci_deps
Advance ==
    IF pc = "check_root"
    THEN files_root' = Tail(files_root) /\ UNCHANGED files_ci_deps
    ELSE files_ci_deps' = Tail(files_ci_deps) /\ UNCHANGED files_root

\* lines 55-59: one iteration of the loop, the file read at line 56-57
CheckYmlFile ==
    /\ Running
    /\ Checking
    /\ Iterator # <<>>
    /\ \E content \in YmlFilePool :
         LET st == get_versions_from_ci(content)
             diff == Diff(st.optional_deps, code_optional, setup_optional)
         IN  /\ st.status = "returned"
             /\ ci' = st
             /\ diffs' = Append(diffs, diff)
             /\ \E report \in Reports(st.optional_deps, code_optional, setup_optional,
                                      Head(Iterator)) :
                  out' = out \o report
             /\ FLAG' = FlagAfter(FLAG, diff)
    /\ yml_file_path' = Head(Iterator)
    /\ Advance
    /\ UNCHANGED <<pc, disk, code_optional, setup_optional, exit_status, exception, runs>>

\* line 57: get_versions_from_ci raises, nothing catches it
CheckYmlFileRaises ==
    /\ Running
    /\ Checking
    /\ Iterator # <<>>
    /\ \E content \in YmlFilePool :
         LET st == get_versions_from_ci(content)
         IN  /\ st.status \notin {"returned", "running"}
             /\ ci' = st
             /\ exception' = st.status
    /\ yml_file_path' = Head(Iterator)
    /\ Advance
    /\ UNCHANGED <<pc, disk, code_optional, setup_optional, diffs, out, FLAG, exit_status, runs>>

\* lines 54-55, 59: the iterator is exhausted, the call returns
CheckYmlFilesReturn ==
    /\ Running
    /\ Checking
    /\ Iterator = <<>>
    /\ pc' = IF pc = "check_root" THEN "check_ci_deps" ELSE "sys_exit"
    /\ UNCHANGED <<disk, files_root, files_ci_deps, code_optional, setup_optional,
                   yml_file_path, ci, diffs, out, FLAG, exit_status, exception, runs>>

\* lines 183-184
SysExit ==
    /\ Running
    /\ pc = "sys_exit"
    /\ exit_status' = FLAG
    /\ pc' = "exited"
    /\ UNCHANGED <<disk, files_root, files_ci_deps, code_optional, setup_optional,
                   yml_file_path, ci, diffs, out, FLAG, exception, runs>>

Next ==
    \/ Import
    \/ ImportRaises
    \/ GetVersionsFromCode
    \/ GetVersionsFromToml
    \/ GetVersionsFromTomlRaises
    \/ CheckYmlFile
    \/ CheckYmlFileRaises
    \/ CheckYmlFilesReturn
    \/ SysExit

Spec == Init /\ [][Next]_vars

(***************************************************************************)
(* Properties of the run                                                   *)
(***************************************************************************)
\* the blocks written for the file path
BlocksOf(path) == {i \in DOMAIN out : out[i].kind = "block" /\ out[i].yml_file_path = path}
\* a comparison has just been made: the last call of get_versions_from_ci
\* returned and find_diff ran on its optional set
Compared == yml_file_path # NoPath /\ ci.status = "returned"
LastDiff == diffs[Len(diffs)]
\* the package has the same version in the three sets
Agreed(p) ==
    /\ p \in DOMAIN ci.optional_deps
    /\ p \in DOMAIN code_optional
    /\ p \in DOMAIN setup_optional
    /\ ci.optional_deps[p] = code_optional[p]
    /\ code_optional[p] = setup_optional[p]
AllKeys == (DOMAIN ci.optional_deps) \cup (DOMAIN code_optional) \cup (DOMAIN setup_optional)

\* C1: when main ends by sys.exit, the exit status is 1 if some call of
\* find_diff computed a non-empty set of differing pairs, and 0 if none did.
C1_ExitStatusIffDifference ==
    pc = "exited" =>
        /\ exit_status \in {0, 1}
        /\ exit_status = 1 <=> \E i \in DOMAIN diffs : diffs[i] # {}
C1_Witness ==
    /\ pc = "exited"
    /\ Len(diffs) = 2
    /\ diffs[1] # {}
    /\ diffs[2] = {}
    /\ exit_status = 1

\* C2: no package of EXCLUDE_DEPS is a key of a set that a reader returned,
\* and none is named in a report block.
C2_ExcludedNeverAppear ==
    \A e \in EXCLUDE_DEPS :
        /\ e \notin DOMAIN code_optional
        /\ e \notin DOMAIN setup_optional
        /\ e \notin DOMAIN ci.required_deps
        /\ e \notin DOMAIN ci.optional_deps
        /\ \A i \in DOMAIN out : out[i].kind = "block" => out[i].package # e

\* C3: a package with the same version in the CI optional set, the code set
\* and the manifest set is in no differing pair and gets no report block.
C3_AgreedPackageNotReported ==
    Compared =>
        \A p \in AllKeys :
            Agreed(p) =>
                /\ p \notin Packages(LastDiff)
                /\ \A i \in BlocksOf(yml_file_path) : out[i].package # p
C3_Witness ==
    /\ Compared
    /\ \E p \in AllKeys : Agreed(p)
    /\ BlocksOf(yml_file_path) # {}

\* C4: find_diff writes exactly one block for every package that is a key of
\* some set and has not the same version in all three, none for any other
\* package, and a block shows each source's version, or 'Not specified'
\* where the package is no key of the source's set.
C4_OneBlockPerDifferingPackage ==
    Compared =>
        /\ \A i \in BlocksOf(yml_file_path) : out[i].package \in AllKeys
        /\ \A p \in AllKeys :
             LET blocks == {i \in BlocksOf(yml_file_path) : out[i].package = p}
             IN  IF Agreed(p) THEN blocks = {}
                 ELSE /\ Cardinality(blocks) = 1
                      /\ \A i \in blocks :
                           /\ out[i].ci = IF p \in DOMAIN ci.optional_deps
                                          THEN ci.optional_deps[p] ELSE NotSpecified
                           /\ out[i].code = IF p \in DOMAIN code_optional
                                            THEN code_optional[p] ELSE NotSpecified
                           /\ out[i].setup = IF p \in DOMAIN setup_optional
                                             THEN setup_optional[p] ELSE NotSpecified
C4_Witness ==
    /\ Compared
    /\ \E p \in (DOMAIN code_optional) \cap (DOMAIN setup_optional) :
         /\ p \notin DOMAIN ci.optional_deps
         /\ \E i \in BlocksOf(yml_file_path) :
              out[i].package = p /\ out[i].ci = NotSpecified

\* C5: once a difference has been found the run still goes through every
\* discovered file: it ends only by sys.exit, with both iterators exhausted.
C5_DifferenceNeverStopsRun ==
    (FLAG = 1 /\ (pc = "exited" \/ ~Running)) =>
        /\ pc = "exited"
        /\ files_root = <<>>
        /\ files_ci_deps = <<>>

\* the comparators of a dependency string
CountGE(dependency) == Cardinality({i \in DOMAIN dependency : StartsAt(dependency, GE, i)})
UsesOtherComparator(dependency) == Contains(dependency, LT) \/ Contains(dependency, EQEQ)
UsesNoComparator(dependency) ==
    \A i \in DOMAIN dependency : dependency[i] \notin {"<", ">", "=", "~", "!"}
\* the call of get_versions_from_toml is over: it returned or it raised
AfterToml == SetupBound \/ (pc = "get_versions_from_toml" /\ ~Running)
\* get_versions_from_toml raised and nothing was compared or written
TomlAborted ==
    /\ pc = "get_versions_from_toml"
    /\ exception = "ValueError"
    /\ yml_file_path = NoPath
    /\ diffs = <<>>
    /\ out = <<>>
    /\ FLAG = 0

C10_RecordsHaveNames ==
    /\ EmptyStr \notin DOMAIN ci.required_deps
    /\ EmptyStr \notin DOMAIN ci.optional_deps
    /\ \A i \in DOMAIN out : out[i].kind = "block" => out[i].package # EmptyStr

(***************************************************************************)
(* get_versions_from_ci, line by line                                      *)
(***************************************************************************)
Idle ==
    /\ VERSIONS = EmptyDict
    /\ INSTALL_MAPPING = EmptyDict
    /\ opt_deps = [all |-> {}, test |-> {}]
    /\ files_root = <<>>
    /\ files_ci_deps = <<>>
    /\ code_optional = EmptyDict
    /\ setup_optional = EmptyDict
    /\ yml_file_path = NoPath
    /\ diffs = <<>>
    /\ out = <<>>
    /\ FLAG = 0
    /\ exit_status = None
    /\ exception = None

InitCI ==
    /\ pc = "get_versions_from_ci"
    /\ ci \in {CiEnter(content) : content \in Contents(LinePool, MaxLines)}
    /\ runs = NoRuns
    /\ Idle

InReader == pc = "get_versions_from_ci" /\ ci.status = "running"

\* lines 82-115: one line is read and nothing is raised
CiLoop ==
    /\ InReader
    /\ ci.n < Len(ci.content)
    /\ CiIterate(ci).status = "running"
    /\ ci' = CiIterate(ci)
    /\ UNCHANGED <<pc, disk, files_root, files_ci_deps, code_optional, setup_optional,
                   yml_file_path, diffs, out, FLAG, exit_status, exception, runs>>

\* lines 92-101: the unpacking of the split raises
CiRaise ==
    /\ InReader
    /\ ci.n < Len(ci.content)
    /\ CiIterate(ci).status # "running"
    /\ ci' = CiIterate(ci)
    /\ exception' = ci'.status
    /\ UNCHANGED <<pc, disk, files_root, files_ci_deps, code_optional, setup_optional,
                   yml_file_path, diffs, out, FLAG, exit_status, runs>>

\* line 116
CiReturn ==
    /\ InReader
    /\ ci.n = Len(ci.content)
    /\ ci' = [ci EXCEPT !.status = "returned"]
    /\ UNCHANGED <<pc, disk, files_root, files_ci_deps, code_optional, setup_optional,
                   yml_file_path, diffs, out, FLAG, exit_status, exception, runs>>

NextCI ==
    \/ CiLoop
    \/ CiRaise
    \/ CiReturn

SpecCI == InitCI /\ [][NextCI]_vars

IsSentinel(line) ==
    Contains(line, REQUIRED_DEPENDENCIES) \/ Contains(line, OPTIONAL_DEPENDENCIES)
IsPip(line) == Contains(line, PIP)

\* what the reading of one line may do to the two sets, by the flags before it
RoutedBySentinelsBefore ==
    (InReader /\ ci'.n = ci.n + 1) =>
        LET line == ci.content[ci.n + 1]
            sameRequired == ci'.required_deps = ci.required_deps
            sameOptional == ci'.optional_deps = ci.optional_deps
            record == ParseCiLine(line)
            added == ~IsSentinel(line) /\ ~IsPip(line) /\ Strip(line) # <<>>
                     /\ record.error = None /\ record.package \notin EXCLUDE_DEPS
        IN  /\ (~ci.seen_required /\ ~ci.seen_optional) => (sameRequired /\ sameOptional)
            /\ (ci.seen_required /\ ~ci.seen_optional) =>
                  /\ sameOptional
                  /\ added => ci'.required_deps =
                                Put(ci.required_deps, Casefold(record.package), record.version)
            /\ ci.seen_optional =>
                  /\ sameRequired
                  /\ (added /\ ci.seen_required) =>
                        ci'.optional_deps =
                          Put(ci.optional_deps, Casefold(record.package), record.version)
            /\ (IsSentinel(line) \/ IsPip(line)) => (sameRequired /\ sameOptional)

\* C7: a line read before any sentinel changes neither set; a line read after
\* the required and before the optional sentinel changes only the required
\* set; a line read once seen_optional is true changes only the optional
\* set, also after a later required sentinel; a sentinel line and a "- pip:"
\* line add no record.
C7_RoutedBySentinels == [][RoutedBySentinelsBefore]_vars
C7_Witness ==
    /\ pc = "get_versions_from_ci"
    /\ ci.status = "returned"
    /\ ci.content = <<LineOptional, LineRequired, LineA1>>
    /\ ci.required_deps = EmptyDict
    /\ ci.optional_deps = (PkgA :> V1)

\* C8: every non-blank dependency line read after the required sentinel
\* gives a record: the reader raises on none.
C8_EveryDependencyLineGivesRecord ==
    pc = "get_versions_from_ci" => ci.status \in {"running", "returned"}

(***************************************************************************)
(* Two runs side by side: the same code set and manifest set, one CI file  *)
(* each, the two files alike but for dependency lines of the required      *)
(* section                                                                 *)
(***************************************************************************)
PairLinePool == {LineRequired, LineOptional, LineA1, LineUpperA2, LineBuild, LineB}
PairOptDepsPool ==
    {[all |-> {DepA1, DepPytest}, test |-> {DepPytest}], [all |-> {DepUpperA2}, test |-> {}]}
PairPath == [dir |-> "ci/deps", name |-> "actions-38-minimum_versions.yaml"]

IsDependencyLine(line) == ~IsSentinel(line) /\ ~IsPip(line) /\ Strip(line) # <<>>
\* line i of the file comes after a required and before any optional sentinel
InRequiredSection(content, i) ==
    /\ \E j \in 1..(i - 1) : Contains(content[j], REQUIRED_DEPENDENCIES)
    /\ \A j \in 1..(i - 1) : ~Contains(content[j], OPTIONAL_DEPENDENCIES)
RequiredVariant(a, b) ==
    /\ Len(a) = Len(b)
    /\ \A i \in DOMAIN a :
         \/ a[i] = b[i]
         \/ /\ InRequiredSection(a, i)
            /\ IsDependencyLine(a[i])
            /\ IsDependencyLine(b[i])

\* the run when main calls check_yml_files(files_ci_deps, ...), line 179
PairEnter(content) ==
    [content |-> content, pc |-> "check_ci_deps", exception |-> None,
     diff |-> {}, out |-> <<>>, FLAG |-> 0, exit_status |-> None]

InitPair ==
    /\ pc = "pair"
    /\ VERSIONS \in VersionsPool
    /\ INSTALL_MAPPING \in InstallPool
    /\ opt_deps \in PairOptDepsPool
    /\ ~TomlRaises
    /\ code_optional \in get_versions_from_code
    /\ setup_optional \in get_versions_from_toml
    /\ \E a, b \in Contents(PairLinePool, MaxPairLines) :
         /\ RequiredVariant(a, b)
         /\ runs = [r \in {"A", "B"} |-> PairEnter(IF r = "A" THEN a ELSE b)]
    /\ files_root = <<>>
    /\ files_ci_deps = <<>>
    /\ yml_file_path = PairPath
    /\ ci = CiIdle
    /\ diffs = <<>>
    /\ out = <<>>
    /\ FLAG = 0
    /\ exit_status = None
    /\ exception = None

pairFrame == <<pc, disk, files_root, files_ci_deps, code_optional, setup_optional,
               yml_file_path, ci, diffs, out, FLAG, exit_status, exception>>

\* lines 55-59 in run r: the file is read and compared
PairCheckYmlFile(r) ==
    /\ pc = "pair"
    /\ runs[r].pc = "check_ci_deps"
    /\ LET st == get_versions_from_ci(runs[r].content)
           diff == Diff(st.optional_deps, code_optional, setup_optional)
       IN  /\ st.status = "returned"
           /\ \E report \in Reports(st.optional_deps, code_optional, setup_optional, PairPath) :
                runs' = [runs EXCEPT ![r].diff = diff,
                                     ![r].out = report,
                                     ![r].FLAG = FlagAfter(runs[r].FLAG, diff),
                                     ![r].pc = "sys_exit"]
    /\ UNCHANGED pairFrame

\* line 57 in run r: get_versions_from_ci raises
PairCheckYmlFileRaises(r) ==
    /\ pc = "pair"
    /\ runs[r].pc = "check_ci_deps"
    /\ LET st == get_versions_from_ci(runs[r].content)
       IN  /\ st.status # "returned"
           /\ runs' = [runs EXCEPT ![r].exception = st.status, ![r].pc = "raised"]
    /\ UNCHANGED pairFrame

\* lines 183-184 in run r
PairSysExit(r) ==
    /\ pc = "pair"
    /\ runs[r].pc = "sys_exit"
    /\ runs' = [runs EXCEPT ![r].exit_status = runs[r].FLAG, ![r].pc = "exited"]
    /\ UNCHANGED pairFrame

NextPair ==
    \/ \E r \in {"A", "B"} : PairCheckYmlFile(r)
    \/ \E r \in {"A", "B"} : PairCheckYmlFileRaises(r)
    \/ \E r \in {"A", "B"} : PairSysExit(r)

SpecPair == InitPair /\ [][NextPair]_vars

Range(f) == {f[i] : i \in DOMAIN f}
Ended(r) == runs[r].pc \in {"exited", "raised"}

\* C9: two runs whose CI files differ only in dependency lines of the
\* required section end alike: the same differing pairs, the same report
\* blocks, the same exit status.
C9_RequiredSectionIrrelevant ==
    (pc = "pair" /\ Ended("A") /\ Ended("B")) =>
        /\ runs["A"].pc = runs["B"].pc
        /\ runs["A"].diff = runs["B"].diff
        /\ Range(runs["A"].out) = Range(runs["B"].out)
        /\ runs["A"].FLAG = runs["B"].FLAG
====
